---- MODULE Spec2Model ----
(***************************************************************************)
(* Github Heroes: the four presentation widgets (RecyclerDialog,           *)
(* PlayerView, CombatDialog, MapView) as state machines over the player,   *)
(* the inventory and the world repository.  One action per UI callback.    *)
(* Collaborators that live outside the widgets (game.logic,                *)
(* data.repositories) are modelled from their use and from the             *)
(* specification.                                                          *)
(***************************************************************************)
EXTENDS Integers, Sequences, FiniteSets, TLC

VARIABLES
    view,             \* the widget this session of the main window works with
    current_player,   \* game_state.current_player: a Player record or None
    inventory,        \* ItemRepository.get_player_inventory: rows [item, quantity, equipped]
    recycler_open,    \* a RecyclerDialog is executing (modal)
    rec_rows,         \* RecyclerDialog.inventory_table: rows [item, spin_max]
    pv_labels,        \* PlayerView stat labels: None ("-") or stat -> [total, base, bonus]
    pv_rows,          \* PlayerView.inventory_table: rows [item, equipped]
    sold,             \* history: item id -> total quantity passed to completed sales
    xp_awarded,       \* history: total XP passed to award_xp by sell_item
    n_sales,          \* history: number of sell_item invocations
    cb_open,          \* a CombatDialog is executing (modal)
    dialog_result,    \* "none", "accepted" or "rejected" (QDialog.accept / reject)
    equipped_bonuses, \* CombatDialog.equipped_bonuses: stat -> bonus
    combat_player,    \* CombatDialog.combat_player: the Player with bonuses applied
    enemy,            \* CombatDialog.enemy
    cb_buttons,       \* enabled state of attack_btn, defend_btn, flee_btn
    log_text,         \* CombatDialog.log_text: the turns whose narration it holds
    cb_timers,        \* pending QTimer.singleShot callbacks: the turns that set them
    cb_display,       \* the two HP bars and the HP numbers of the two stats labels
    speed_delay,      \* the combat_text_speed setting
    cb_emitted,       \* history: combat_ended emissions of this dialog
    cb_written,       \* history: the base player as the dialog left it before handle_*
    n_turns,          \* history: combat_turn calls of this dialog
    n_combats,        \* history: dialogs created
    worlds_repo,      \* RepoWorldRepository: the ids of the stored worlds
    worlds_list,      \* MapView.worlds_list: the world id of each list item
    current_world_id, \* MapView.current_world_id (0: None; world ids start at 1)
    map_buttons,      \* enabled state of enter_btn, quest_btn, refresh_btn
    details_label,    \* the world whose details are shown (0: the placeholder text)
    map_selection,    \* history: the last list click, [world, found], or None
    lastOp,           \* history: the callback that ran last, with its inputs
    lastCalls         \* history: the collaborator calls the last callback made, in order

sharedVars == <<current_player, inventory>>
recVars == <<recycler_open, rec_rows, sold, xp_awarded, n_sales>>
pvVars == <<pv_labels, pv_rows>>
cbVars == <<cb_open, dialog_result, equipped_bonuses, combat_player, enemy, cb_buttons,
            log_text, cb_timers, cb_display, speed_delay, cb_emitted, cb_written,
            n_turns, n_combats>>
mapVars == <<worlds_repo, worlds_list, current_world_id, map_buttons, details_label,
             map_selection>>
histVars == <<lastOp, lastCalls>>
vars == <<view, sharedVars, recVars, pvVars, cbVars, mapVars, histVars>>

\* Python's None (a record, so that it compares with Player and Item records)
None == [none |-> TRUE]

\* ------------------------------------------------------------------ bounds
MaxQty == 2
MaxSales == 2
MaxTurns == 3
MaxCombats == 2
NumWorlds == 2

\* ------------------------------------------------------------------ data
\* Item: id -> rarity and stat-bonus mapping (item.get_stat_bonuses()).
\* One item per rarity of the specification's enum; item 3 carries a bonus
\* key outside the five stats.
Items ==
    [i \in 1..5 |->
        CASE i = 1 -> [rarity |-> "common",    bonuses |-> [attack |-> 2]]
          [] i = 2 -> [rarity |-> "uncommon",  bonuses |-> [hp |-> 5, defense |-> 1]]
          [] i = 3 -> [rarity |-> "rare",      bonuses |-> [hp |-> 3, luck |-> 1, crit |-> 4]]
          [] i = 4 -> [rarity |-> "epic",      bonuses |-> [speed |-> 2, attack |-> 1]]
          [] i = 5 -> [rarity |-> "legendary", bonuses |-> [hp |-> 7]]]

ItemIds == DOMAIN Items

\* Ids ItemRepository.get_by_id finds no item for.
MissingItemIds == {9}

\* ItemRepository.get_by_id
get_by_id(item_id) == IF item_id \in ItemIds THEN Items[item_id] ELSE None

Row(i, q, e) == [item |-> i, quantity |-> q, equipped |-> e]

\* Player(level, xp, hp, attack, defense, speed, luck)
Player(l, x, h, a, d, s, k) ==
    [level |-> l, xp |-> x, hp |-> h, attack |-> a, defense |-> d, speed |-> s, luck |-> k]

\* ------------------------------------------------------------ initial data
Enemy(l, h, a, d) == [level |-> l, hp |-> h, attack |-> a, defense |-> d]

StartPlayers ==
    { Player(1, 0, 20, 5, 3, 2, 1), Player(1, 95, 20, 5, 3, 2, 1) }

CombatPlayers ==
    { Player(1, 95, 6, 5, 3, 2, 1), Player(2, 20, 14, 7, 4, 3, 2) }

StartInventories ==
    { << >>,
      << Row(1, MaxQty, FALSE) >>,
      << Row(1, 1, TRUE), Row(3, MaxQty, FALSE) >>,
      << Row(2, MaxQty, TRUE), Row(4, 1, FALSE), Row(5, 1, TRUE) >> }

CombatInventories ==
    { << Row(1, 1, FALSE) >>,
      << Row(2, 1, TRUE), Row(3, 1, TRUE), Row(5, 1, FALSE) >> }

StartEnemies == { Enemy(1, 6, 3, 1), Enemy(2, 13, 4, 2) }

\* ------------------------------------------------------------ game.logic
\* award_xp(player, amount): adds the XP and levels up while the XP reaches
\* level * 100; a level-up raises HP +10, Attack +2, Defense +1, Speed +1,
\* Luck +1.  Returns the new player and whether a level was gained.
RECURSIVE level_up(_)
level_up(p) ==
    IF p.xp >= p.level * 100
    THEN level_up([p EXCEPT !.xp = @ - p.level * 100, !.level = @ + 1,
                            !.hp = @ + 10, !.attack = @ + 2, !.defense = @ + 1,
                            !.speed = @ + 1, !.luck = @ + 1])
    ELSE p

award_xp(p, amount) ==
    LET q == level_up([p EXCEPT !.xp = @ + amount])
    IN  [player |-> q, leveled_up |-> q.level > p.level]

\* ----------------------------------------------------- data.repositories
\* ItemRepository.remove_from_inventory(player_id, item_id, quantity): the
\* row's quantity drops by quantity; a row that reaches zero is deleted.
remove_from_inventory(inv, item_id, quantity) ==
    LET dec == [r \in 1..Len(inv) |->
                  IF inv[r].item = item_id
                  THEN [inv[r] EXCEPT !.quantity = @ - quantity]
                  ELSE inv[r]]
    IN  SelectSeq(dec, LAMBDA row : row.quantity > 0)

Call(fn, arg) == [fn |-> fn, arg |-> arg]

\* ---------------------------------------------------------- RecyclerDialog
\* The rarity -> XP table of sell_item.
rarity_xp ==
    [common |-> 5, uncommon |-> 10, rare |-> 25, epic |-> 50, legendary |-> 100]

xp_reward_no_quantity(item, quantity) ==
    IF item.rarity \in DOMAIN rarity_xp THEN rarity_xp[item.rarity] ELSE 5

\* xp_reward = rarity_xp.get(item.rarity, 5) * quantity
xp_reward(item, quantity) ==
    (IF item.rarity \in DOMAIN rarity_xp THEN rarity_xp[item.rarity] ELSE 5) * quantity

\* refresh_inventory: the table is emptied; with a current player it gets one
\* row per inventory row, its quantity selector ranging over 1..quantity.
refresh_inventory(player, inv) ==
    IF player = None
    THEN << >>
    ELSE [r \in 1..Len(inv) |-> [item |-> inv[r].item, spin_max |-> inv[r].quantity]]

\* the collaborator calls of a completed sale, in order
sale_calls(quantity, reward, leveled_up, level) ==
    << Call("remove_from_inventory", quantity),
       Call("award_xp", reward),
       Call("PlayerRepository.update", 0),
       Call("refresh_inventory", 0),
       Call("QMessageBox.information", reward) >>
    \o (IF leveled_up THEN << Call("QMessageBox.information", level) >> ELSE << >>)

\* sell_item returns at once: nothing is called, nothing changes
early_return ==
    /\ lastCalls' = << >>
    /\ UNCHANGED <<current_player, inventory, rec_rows, sold, xp_awarded>>

complete_sale_no_refresh(item_id, quantity) ==
    LET item == get_by_id(item_id)
        reward == xp_reward(item, quantity)
        inv2 == remove_from_inventory(inventory, item_id, quantity)
        res == award_xp(current_player, reward)
    IN  /\ inventory' = inv2
        /\ current_player' = res.player
        /\ rec_rows' = rec_rows
        /\ sold' = [sold EXCEPT ![item_id] = @ + quantity]
        /\ xp_awarded' = xp_awarded + reward
        /\ lastCalls' = sale_calls(quantity, reward, res.leveled_up, res.player.level)

\* sell_item past its two early returns
complete_sale(item_id, quantity) ==
    LET item == get_by_id(item_id)
        reward == xp_reward(item, quantity)
        inv2 == remove_from_inventory(inventory, item_id, quantity)
        res == award_xp(current_player, reward)
    IN  /\ inventory' = inv2
        /\ current_player' = res.player
        /\ rec_rows' = refresh_inventory(res.player, inv2)
        /\ sold' = [sold EXCEPT ![item_id] = @ + quantity]
        /\ xp_awarded' = xp_awarded + reward
        /\ lastCalls' = sale_calls(quantity, reward, res.leveled_up, res.player.level)

sell_item_remove_first(item_id, quantity) ==
    /\ lastOp' = [op |-> "sell_item", item |-> item_id, quantity |-> quantity]
    /\ n_sales' = n_sales + 1
    /\ UNCHANGED <<view, recycler_open, pvVars, cbVars, mapVars>>
    /\ IF current_player = None
       THEN early_return
       ELSE IF get_by_id(item_id) = None
            THEN /\ inventory' = remove_from_inventory(inventory, item_id, quantity)
                 /\ lastCalls' = << Call("remove_from_inventory", quantity) >>
                 /\ UNCHANGED <<current_player, rec_rows, sold, xp_awarded>>
            ELSE complete_sale(item_id, quantity)

\* sell_item(item_id, quantity), the whole handler.
sell_item(item_id, quantity) ==
    /\ lastOp' = [op |-> "sell_item", item |-> item_id, quantity |-> quantity]
    /\ n_sales' = n_sales + 1
    /\ UNCHANGED <<view, recycler_open, pvVars, cbVars, mapVars>>
    /\ IF current_player = None \/ get_by_id(item_id) = None
       THEN early_return
       ELSE complete_sale(item_id, quantity)

\* A click on a row's Sell button: the row's item, the selector's value.
SellClick ==
    /\ recycler_open
    /\ n_sales < MaxSales
    /\ \E r \in 1..Len(rec_rows) :
         \E q \in 1..rec_rows[r].spin_max :
            sell_item(rec_rows[r].item, q)

\* sell_item called with an arbitrary item id and quantity.
SellCall ==
    /\ recycler_open
    /\ n_sales < MaxSales
    /\ \E i \in ItemIds \cup MissingItemIds :
         \E q \in 1..MaxQty :
            sell_item(i, q)

\* -------------------------------------------------------------- PlayerView
StatNames == {"hp", "attack", "defense", "speed", "luck"}

ZeroBonuses == [s \in StatNames |-> 0]

\* for stat, bonus in bonuses.items(): if stat in equipped_bonuses: += bonus
add_bonuses(acc, bonuses) ==
    [s \in DOMAIN acc |-> IF s \in DOMAIN bonuses THEN acc[s] + bonuses[s] ELSE acc[s]]

RECURSIVE bonuses_of_all_rows(_, _, _)
bonuses_of_all_rows(inv, r, acc) ==
    IF r > Len(inv) THEN acc
    ELSE bonuses_of_all_rows(inv, r + 1, add_bonuses(acc, Items[inv[r].item].bonuses))

\* for item, quantity, equipped in inventory: if equipped: add the item's bonuses
RECURSIVE equipped_bonuses_from(_, _, _)
equipped_bonuses_from(inv, r, acc) ==
    IF r > Len(inv) THEN acc
    ELSE equipped_bonuses_from(inv, r + 1,
            IF inv[r].equipped
            THEN add_bonuses(acc, Items[inv[r].item].bonuses)
            ELSE acc)

\* the labels refresh writes: "HP: {total} ({base} + {bonus})" and so on
stat_labels(player, inv) ==
    LET eq == equipped_bonuses_from(inv, 1, ZeroBonuses)
    IN  [s \in StatNames |->
            [total |-> player[s] + eq[s],
             base  |-> player[s],
             bonus |-> eq[s]]]

\* PlayerView.refresh as a function of what it reads: the new labels and rows.
\* Without a current player only the name label changes.
refreshed_labels(player, inv) ==
    IF player = None THEN pv_labels ELSE stat_labels(player, inv)

refreshed_rows(player, inv) ==
    IF player = None THEN pv_rows
    ELSE [r \in 1..Len(inv) |-> [item |-> inv[r].item, equipped |-> inv[r].equipped]]

\* ItemRepository.equip_item / unequip_item: set or clear the row's flag
set_equipped(inv, item_id, flag) ==
    [r \in 1..Len(inv) |->
        IF inv[r].item = item_id THEN [inv[r] EXCEPT !.equipped = flag] ELSE inv[r]]

refresh ==
    /\ view = "PlayerView"
    /\ ~recycler_open
    /\ pv_labels' = refreshed_labels(current_player, inventory)
    /\ pv_rows' = refreshed_rows(current_player, inventory)
    /\ lastOp' = [op |-> "refresh"]
    /\ lastCalls' = << >>
    /\ UNCHANGED <<view, sharedVars, recVars, cbVars, mapVars>>

change_equipped_persisting(name, item_id, flag) ==
    /\ lastOp' = [op |-> name, item |-> item_id, shown_before |-> pv_labels]
    /\ UNCHANGED <<view, recVars, cbVars, mapVars>>
    /\ IF current_player = None
       THEN /\ lastCalls' = << >>
            /\ UNCHANGED <<current_player, inventory, pvVars>>
       ELSE LET inv2 == set_equipped(inventory, item_id, flag)
                gain == add_bonuses(ZeroBonuses, Items[item_id].bonuses)
                p2 == [current_player EXCEPT
                          !.hp = @ + (IF flag THEN gain["hp"] ELSE 0 - gain["hp"]),
                          !.attack = @ + (IF flag THEN gain["attack"] ELSE 0 - gain["attack"])]
            IN  /\ inventory' = inv2
                /\ current_player' = p2
                /\ pv_labels' = refreshed_labels(p2, inv2)
                /\ pv_rows' = refreshed_rows(p2, inv2)
                /\ lastCalls' = << Call("ItemRepository." \o name, item_id),
                                   Call("refresh", 0) >>

\* equip_item / unequip_item(item_id), the whole handler (flag: equip or unequip)
change_equipped(name, item_id, flag) ==
    /\ lastOp' = [op |-> name, item |-> item_id, shown_before |-> pv_labels]
    /\ UNCHANGED <<view, current_player, recVars, cbVars, mapVars>>
    /\ IF current_player = None
       THEN /\ lastCalls' = << >>
            /\ UNCHANGED <<inventory, pvVars>>
       ELSE LET inv2 == set_equipped(inventory, item_id, flag)
            IN  /\ inventory' = inv2
                /\ pv_labels' = refreshed_labels(current_player, inv2)
                /\ pv_rows' = refreshed_rows(current_player, inv2)
                /\ lastCalls' = << Call("ItemRepository." \o name, item_id),
                                   Call("refresh", 0) >>

equip_item(item_id) == change_equipped("equip_item", item_id, TRUE)

unequip_item(item_id) == change_equipped("unequip_item", item_id, FALSE)

\* A click on a row's Equip button (shown on rows that are not equipped).
EquipClick ==
    /\ view = "PlayerView"
    /\ ~recycler_open
    /\ \E r \in 1..Len(pv_rows) : ~pv_rows[r].equipped /\ equip_item(pv_rows[r].item)

\* A click on a row's Unequip button (shown on equipped rows).
UnequipClick ==
    /\ view = "PlayerView"
    /\ ~recycler_open
    /\ \E r \in 1..Len(pv_rows) : pv_rows[r].equipped /\ unequip_item(pv_rows[r].item)

\* equip_item / unequip_item called without a row (no player: the table is empty)
EquipCall ==
    /\ view = "PlayerView"
    /\ ~recycler_open
    /\ current_player = None
    /\ \E i \in ItemIds : equip_item(i) \/ unequip_item(i)

\* open_recycler, up to dialog.exec(): the dialog is built and runs modally
open_recycler ==
    /\ view = "PlayerView"
    /\ ~recycler_open
    /\ recycler_open' = TRUE
    /\ rec_rows' = refresh_inventory(current_player, inventory)
    /\ lastOp' = [op |-> "open_recycler"]
    /\ lastCalls' = << >>
    /\ UNCHANGED <<view, sharedVars, sold, xp_awarded, n_sales, pvVars, cbVars, mapVars>>

\* the Close button: exec() returns and open_recycler refreshes the view
close_recycler ==
    /\ recycler_open
    /\ recycler_open' = FALSE
    /\ pv_labels' = refreshed_labels(current_player, inventory)
    /\ pv_rows' = refreshed_rows(current_player, inventory)
    /\ lastOp' = [op |-> "close_recycler"]
    /\ lastCalls' = << Call("refresh", 0) >>
    /\ UNCHANGED <<view, sharedVars, rec_rows, sold, xp_awarded, n_sales, cbVars, mapVars>>

\* ------------------------------------------------------------ CombatDialog
Max(a, b) == IF a >= b THEN a ELSE b

Min(a, b) == IF a <= b THEN a ELSE b

Actions == {"attack", "defend", "flee"}

\* Damage one side can take in one turn.
Damages == {0, 7}

\* game.logic.combat_turn(combat_player, enemy, action): the outcomes it can
\* report, as [player_hp, enemy_hp, continues, result].  A turn that ends the
\* combat reports "victory", "defeat" or "fled".
turn_outcome(php, ehp) ==
    [player_hp |-> php, enemy_hp |-> ehp,
     continues |-> php > 0 /\ ehp > 0,
     result |-> IF ehp <= 0 THEN "victory" ELSE IF php <= 0 THEN "defeat" ELSE "none"]

combat_turn(cp, en, action) ==
    CASE action = "attack" ->
            { turn_outcome(IF en.hp - de <= 0 THEN cp.hp ELSE cp.hp - dp, en.hp - de) :
                de \in Damages, dp \in Damages }
      [] action = "defend" ->
            { turn_outcome(cp.hp - dp, en.hp) : dp \in Damages }
      [] action = "flee" ->
            { [player_hp |-> cp.hp, enemy_hp |-> en.hp, continues |-> FALSE, result |-> "fled"] }
            \cup { turn_outcome(cp.hp - dp, en.hp) : dp \in Damages }

\* ItemRepository.add_to_inventory, as handle_victory uses it for loot
add_to_inventory(inv, item_id) ==
    IF \E r \in 1..Len(inv) : inv[r].item = item_id
    THEN [r \in 1..Len(inv) |->
            IF inv[r].item = item_id THEN [inv[r] EXCEPT !.quantity = @ + 1] ELSE inv[r]]
    ELSE Append(inv, Row(item_id, 1, FALSE))

\* game.logic.handle_victory(player, enemy, loot_quality): awards XP for the
\* enemy and may drop one item (loot 0: none).  Returns (loot, xp, leveled_up).
handle_victory(p, en) ==
    { [player |-> award_xp(p, en.level * 10).player,
       leveled_up |-> award_xp(p, en.level * 10).leveled_up,
       xp |-> en.level * 10,
       loot |-> l] : l \in {0, 1} }

\* game.logic.handle_defeat(player): takes XP away and returns the penalties.
handle_defeat(p) ==
    { [player |-> [p EXCEPT !.xp = @ - lost], xp_lost |-> lost] : lost \in {0, p.xp \div 10} }

\* QProgressBar (the toolkit's widget): a fresh bar has range 0..100 and no value.
NewBar == [minimum |-> 0, maximum |-> 100, value |-> -1]

\* QProgressBar.setRange: a value outside the new range is reset to minimum - 1
setRange(bar, lo, hi) ==
    IF lo = bar.minimum /\ hi = bar.maximum THEN bar
    ELSE LET b == [bar EXCEPT !.minimum = lo, !.maximum = Max(lo, hi)]
         IN  IF b.value < b.minimum - 1 \/ b.value > b.maximum
             THEN [b EXCEPT !.value = b.minimum - 1]
             ELSE b

setMaximum(bar, m) == setRange(bar, Min(bar.minimum, m), m)

\* QProgressBar.setValue: a value outside the range is ignored
setValue(bar, v) ==
    IF bar.value = v
       \/ ((v > bar.maximum \/ v < bar.minimum) /\ (bar.maximum # 0 \/ bar.minimum # 0))
    THEN bar
    ELSE [bar EXCEPT !.value = v]

hp_unclamped(hp) == hp

\* max(hp, 0): the HP a bar and a stats label show
hp_shown(hp) == Max(hp, 0)

bar_maximum_kept(hp) == Max(hp, 100)

\* max(hp, 1): the maximum of an HP bar
bar_maximum(hp) == Max(hp, 1)

\* init_ui: the bars get the enemy's and the base player's HP as range and value
init_ui(player, en) ==
    [enemy_bar  |-> setValue(setMaximum(NewBar, en.hp), en.hp),
     enemy_hp   |-> None,
     player_bar |-> setValue(setMaximum(NewBar, player.hp), player.hp),
     player_hp  |-> None]

\* update_display
update_display(d, cp, en) ==
    [enemy_bar  |-> setValue(setMaximum(d.enemy_bar, bar_maximum(en.hp)), hp_shown(en.hp)),
     enemy_hp   |-> hp_shown(en.hp),
     player_bar |-> setValue(setMaximum(d.player_bar, bar_maximum(cp.hp)), hp_shown(cp.hp)),
     player_hp  |-> hp_shown(cp.hp)]

\* CombatDialog.__init__(player, enemy): the equipped bonuses, the combat
\* player, init_ui and the first update_display.  A dialog that was closed is
\* replaced; timers it left behind act on the old dialog only.
RECURSIVE combat_bonuses_of_all_rows(_, _, _)
combat_bonuses_of_all_rows(inv, r, acc) ==
    IF r > Len(inv) THEN acc
    ELSE combat_bonuses_of_all_rows(inv, r + 1,
            add_bonuses(acc, Items[inv[r].item].bonuses))

\* CombatDialog.__init__'s own loop over the inventory: the bonuses of the
\* equipped rows, summed per stat, keys other than the five stats skipped
RECURSIVE combat_bonuses_from(_, _, _)
combat_bonuses_from(inv, r, acc) ==
    IF r > Len(inv) THEN acc
    ELSE LET row == inv[r]
             bonuses == Items[row.item].bonuses
         IN  combat_bonuses_from(inv, r + 1,
                IF row.equipped
                THEN [stat \in DOMAIN acc |->
                        IF stat \in DOMAIN bonuses
                        THEN acc[stat] + bonuses[stat]
                        ELSE acc[stat]]
                ELSE acc)

open_combat ==
    /\ view = "CombatDialog"
    /\ ~cb_open
    /\ n_combats < MaxCombats
    /\ current_player # None
    /\ \E en \in StartEnemies :
         LET eq == combat_bonuses_from(inventory, 1, ZeroBonuses)
             cp == [current_player EXCEPT !.hp = @ + eq["hp"],
                                          !.attack = @ + eq["attack"],
                                          !.defense = @ + eq["defense"],
                                          !.speed = @ + eq["speed"],
                                          !.luck = @ + eq["luck"]]
         IN  /\ equipped_bonuses' = eq
             /\ combat_player' = cp
             /\ enemy' = en
             /\ cb_display' = update_display(init_ui(current_player, en), cp, en)
    /\ cb_open' = TRUE
    /\ dialog_result' = "none"
    /\ cb_buttons' = [a \in Actions |-> TRUE]
    /\ log_text' = << >>
    /\ cb_timers' = << >>
    /\ cb_emitted' = << >>
    /\ cb_written' = None
    /\ n_turns' = 0
    /\ n_combats' = n_combats + 1
    /\ lastOp' = [op |-> "open_combat"]
    /\ lastCalls' = << >>
    /\ UNCHANGED <<view, sharedVars, recVars, pvVars, mapVars, speed_delay>>

written_hp_with_bonus(combat_hp, bonus_hp) == Max(1, combat_hp)

\* self.player.hp = max(1, self.combat_player.hp - self.equipped_bonuses["hp"])
written_hp(combat_hp, bonus_hp) == Max(1, combat_hp - bonus_hp)

buttons_left_enabled == [a \in Actions |-> TRUE]

\* setEnabled(False) on the three buttons
buttons_disabled == [a \in Actions |-> FALSE]

\* the calls of the first half of execute_action
turn_calls ==
    << Call("combat_turn", 0), Call("log_text.append", n_turns + 1),
       IF speed_delay > 0 THEN Call("QTimer.singleShot", speed_delay)
                          ELSE Call("update_display", 0) >>

victory_calls_no_update(hp, leveled_up) ==
    << Call("player.hp =", hp), Call("handle_victory", 0),
       Call("QMessageBox.information", 0) >>
    \o (IF leveled_up THEN << Call("QMessageBox.information", 1) >> ELSE << >>)
    \o << Call("combat_ended.emit", 0), Call("accept", 0) >>

victory_calls_emit_first(hp, leveled_up) ==
    << Call("player.hp =", hp), Call("handle_victory", 0),
       Call("combat_ended.emit", 0),
       Call("PlayerRepository.update", 0), Call("QMessageBox.information", 0) >>
    \o (IF leveled_up THEN << Call("QMessageBox.information", 1) >> ELSE << >>)
    \o << Call("accept", 0) >>

\* the calls of the victory branch, in order
victory_calls(hp, leveled_up) ==
    << Call("player.hp =", hp), Call("handle_victory", 0),
       Call("PlayerRepository.update", 0), Call("QMessageBox.information", 0) >>
    \o (IF leveled_up THEN << Call("QMessageBox.information", 1) >> ELSE << >>)
    \o << Call("combat_ended.emit", 0), Call("accept", 0) >>

\* the calls of the defeat branch, in order
defeat_calls(hp) ==
    << Call("player.hp =", hp), Call("handle_defeat", 0),
       Call("PlayerRepository.update", 0), Call("QMessageBox.warning", 0),
       Call("combat_ended.emit", 0), Call("reject", 0) >>

fled_calls_with_update ==
    << Call("PlayerRepository.update", 0), Call("combat_ended.emit", 0),
       Call("reject", 0) >>

\* the calls of the fled branch
fled_calls == << Call("combat_ended.emit", 0), Call("reject", 0) >>

\* execute_action(action), the whole handler, for one outcome t of combat_turn
execute_outcome(action, t) ==
    LET turn == n_turns + 1
        cp == [combat_player EXCEPT !.hp = t.player_hp]
        en == [enemy EXCEPT !.hp = t.enemy_hp]
        hp == written_hp(cp.hp, equipped_bonuses["hp"])
        base == [current_player EXCEPT !.hp = hp]
    IN  /\ combat_player' = cp
        /\ enemy' = en
        /\ n_turns' = turn
        /\ log_text' = Append(log_text, turn)
        /\ IF speed_delay > 0
           THEN /\ cb_timers' = Append(cb_timers, turn)
                /\ UNCHANGED cb_display
           ELSE /\ cb_display' = update_display(cb_display, cp, en)
                /\ UNCHANGED cb_timers
        /\ lastOp' = [op |-> "execute_action", action |-> action, turn |-> turn,
                      continues |-> t.continues, result |-> t.result,
                      before |-> current_player]
        /\ IF t.continues
           THEN /\ lastCalls' = turn_calls
                /\ UNCHANGED <<sharedVars, cb_open, dialog_result, cb_buttons,
                               cb_emitted, cb_written>>
           ELSE /\ cb_buttons' = buttons_disabled
                /\ CASE t.result = "victory" ->
                          \E v \in handle_victory(base, en) :
                             /\ cb_written' = base
                             /\ current_player' = v.player
                             /\ inventory' = IF v.loot = 0 THEN inventory
                                             ELSE add_to_inventory(inventory, v.loot)
                             /\ lastCalls' = turn_calls \o victory_calls(hp, v.leveled_up)
                             /\ cb_emitted' = Append(cb_emitted, [result |-> "victory", turn |-> turn,
                                                       data |-> {"loot", "xp", "leveled_up"}])
                             /\ dialog_result' = "accepted"
                             /\ cb_open' = FALSE
                    [] t.result = "defeat" ->
                          \E d \in handle_defeat(base) :
                             /\ cb_written' = base
                             /\ current_player' = d.player
                             /\ lastCalls' = turn_calls \o defeat_calls(hp)
                             /\ cb_emitted' = Append(cb_emitted, [result |-> "defeat", turn |-> turn,
                                                       data |-> {"xp_lost"}])
                             /\ dialog_result' = "rejected"
                             /\ cb_open' = FALSE
                             /\ UNCHANGED inventory
                    [] t.result = "fled" ->
                             /\ lastCalls' = turn_calls \o fled_calls
                             /\ cb_emitted' = Append(cb_emitted, [result |-> "fled", turn |-> turn, data |-> {}])
                             /\ dialog_result' = "rejected"
                             /\ cb_open' = FALSE
                             /\ UNCHANGED <<sharedVars, cb_written>>
                    [] OTHER ->
                             /\ lastCalls' = turn_calls
                             /\ UNCHANGED <<sharedVars, cb_open, dialog_result,
                                            cb_emitted, cb_written>>

\* A click on Attack, Defend or Flee (an enabled button of the open dialog).
execute_action ==
    /\ view = "CombatDialog"
    /\ cb_open
    /\ n_turns < MaxTurns
    /\ \E action \in Actions :
         /\ cb_buttons[action]
         /\ \E t \in combat_turn(combat_player, enemy, action) : execute_outcome(action, t)
    /\ UNCHANGED <<view, recVars, pvVars, mapVars, equipped_bonuses, speed_delay, n_combats>>

timer_fires_skips_closed ==
    /\ view = "CombatDialog"
    /\ cb_timers # << >>
    /\ cb_timers' = Tail(cb_timers)
    /\ cb_display' = IF cb_open THEN update_display(cb_display, combat_player, enemy)
                                ELSE cb_display
    /\ lastOp' = [op |-> "timer_fires", turn |-> Head(cb_timers)]
    /\ lastCalls' = << Call("update_display", 0) >>
    /\ UNCHANGED <<view, sharedVars, recVars, pvVars, mapVars, cb_open, dialog_result,
                   equipped_bonuses, combat_player, enemy, cb_buttons, log_text,
                   speed_delay, cb_emitted, cb_written, n_turns, n_combats>>

\* A QTimer.singleShot fires: lambda: self.update_display()
timer_fires ==
    /\ view = "CombatDialog"
    /\ cb_timers # << >>
    /\ cb_timers' = Tail(cb_timers)
    /\ cb_display' = update_display(cb_display, combat_player, enemy)
    /\ lastOp' = [op |-> "timer_fires", turn |-> Head(cb_timers)]
    /\ lastCalls' = << Call("update_display", 0) >>
    /\ UNCHANGED <<view, sharedVars, recVars, pvVars, mapVars, cb_open, dialog_result,
                   equipped_bonuses, combat_player, enemy, cb_buttons, log_text,
                   speed_delay, cb_emitted, cb_written, n_turns, n_combats>>

\* ----------------------------------------------------------------- MapView
WorldIds == 1..NumWorlds

\* RepoWorldRepository.get_all, in id order
RECURSIVE get_all(_)
get_all(repo) ==
    IF repo = {} THEN << >>
    ELSE LET w == CHOOSE x \in repo : \A y \in repo : x <= y
         IN  << w >> \o get_all(repo \ {w})

MapButtons == {"enter", "quest", "refresh"}

\* refresh_worlds: the list is cleared and filled from the repository
refresh_worlds ==
    /\ view = "MapView"
    /\ worlds_list' = get_all(worlds_repo)
    /\ lastOp' = [op |-> "refresh_worlds"]
    /\ lastCalls' = << >>
    /\ UNCHANGED <<view, sharedVars, recVars, pvVars, cbVars, worlds_repo,
                   current_world_id, map_buttons, details_label, map_selection>>

\* on_world_selected(item): a click on a list item
on_world_selected ==
    /\ view = "MapView"
    /\ \E r \in 1..Len(worlds_list) :
         LET world_id == worlds_list[r]
             found == world_id \in worlds_repo    \* RepoWorldRepository.get_by_id
         IN  /\ current_world_id' = world_id
             /\ map_selection' = [world |-> world_id, found |-> found]
             /\ lastOp' = [op |-> "on_world_selected", world |-> world_id]
             /\ IF ~found
                THEN UNCHANGED <<details_label, map_buttons>>
                ELSE /\ details_label' = world_id
                     /\ map_buttons' = [b \in MapButtons |-> TRUE]
    /\ lastCalls' = << >>
    /\ UNCHANGED <<view, sharedVars, recVars, pvVars, cbVars, worlds_repo, worlds_list>>

\* on_enter_dungeon / on_open_quest_board / on_refresh_world: a click on an
\* enabled button emits the button's signal when current_world_id is set
button_clicked(button, signal) ==
    /\ view = "MapView"
    /\ map_buttons[button]
    /\ lastOp' = [op |-> "on_" \o signal]
    /\ lastCalls' = IF current_world_id # 0
                    THEN << Call(signal \o ".emit", current_world_id) >>
                    ELSE << >>
    /\ UNCHANGED <<view, sharedVars, recVars, pvVars, cbVars, mapVars>>

on_enter_dungeon == button_clicked("enter", "enter_dungeon")

on_open_quest_board == button_clicked("quest", "open_quest_board")

on_refresh_world == button_clicked("refresh", "refresh_world")

\* The repository changes behind the view: a world is imported or removed.
world_stored ==
    /\ view = "MapView"
    /\ \E w \in WorldIds \ worlds_repo : worlds_repo' = worlds_repo \cup {w}
    /\ lastOp' = [op |-> "world_stored"]
    /\ lastCalls' = << >>
    /\ UNCHANGED <<view, sharedVars, recVars, pvVars, cbVars, worlds_list,
                   current_world_id, map_buttons, details_label, map_selection>>

world_removed ==
    /\ view = "MapView"
    /\ \E w \in worlds_repo : worlds_repo' = worlds_repo \ {w}
    /\ lastOp' = [op |-> "world_removed"]
    /\ lastCalls' = << >>
    /\ UNCHANGED <<view, sharedVars, recVars, pvVars, cbVars, worlds_list,
                   current_world_id, map_buttons, details_label, map_selection>>

\* ------------------------------------------------------------ idle widgets
\* The widgets a session does not work with stay as constructed.
RecyclerIdle ==
    /\ recycler_open = FALSE
    /\ rec_rows = << >>
    /\ sold = [i \in ItemIds |-> 0]
    /\ xp_awarded = 0
    /\ n_sales = 0

\* PlayerView.init_ui: every stat label reads "-", the table is empty
PlayerViewIdle ==
    /\ pv_labels = None
    /\ pv_rows = << >>

CombatIdle ==
    /\ cb_open = FALSE
    /\ dialog_result = "none"
    /\ equipped_bonuses = None
    /\ combat_player = None
    /\ enemy = None
    /\ cb_buttons = None
    /\ log_text = << >>
    /\ cb_timers = << >>
    /\ cb_display = None
    /\ cb_emitted = << >>
    /\ cb_written = None
    /\ n_turns = 0
    /\ n_combats = 0

\* MapView.init_ui; __init__ then fills the list (InitMap)
MapIdle ==
    /\ worlds_repo = {}
    /\ worlds_list = << >>
    /\ current_world_id = 0
    /\ map_buttons = [b \in MapButtons |-> FALSE]
    /\ details_label = 0
    /\ map_selection = None

\* The player profile page, from which the recycler is opened.
InitInventory ==
    /\ view = "PlayerView"
    /\ current_player \in StartPlayers \cup {None}
    /\ inventory \in StartInventories
    /\ RecyclerIdle
    /\ PlayerViewIdle
    /\ CombatIdle
    /\ MapIdle
    /\ speed_delay = 0
    /\ lastOp = [op |-> "init"]
    /\ lastCalls = << >>

\* A dungeon run: the main window opens one CombatDialog after another.
InitCombat ==
    /\ view = "CombatDialog"
    /\ current_player \in CombatPlayers
    /\ inventory \in CombatInventories
    /\ RecyclerIdle
    /\ PlayerViewIdle
    /\ CombatIdle
    /\ MapIdle
    /\ speed_delay \in {0, 300}
    /\ lastOp = [op |-> "init"]
    /\ lastCalls = << >>

\* The world map page: MapView.__init__ is init_ui and refresh_worlds.
InitMap ==
    /\ view = "MapView"
    /\ current_player \in StartPlayers
    /\ inventory = << >>
    /\ RecyclerIdle
    /\ PlayerViewIdle
    /\ CombatIdle
    /\ speed_delay = 0
    /\ worlds_repo \in SUBSET WorldIds
    /\ worlds_list = get_all(worlds_repo)
    /\ current_world_id = 0
    /\ map_buttons = [b \in MapButtons |-> FALSE]
    /\ details_label = 0
    /\ map_selection = None
    /\ lastOp = [op |-> "init"]
    /\ lastCalls = << >>

Init == InitInventory \/ InitCombat \/ InitMap

Next ==
    \/ refresh
    \/ EquipClick
    \/ UnequipClick
    \/ EquipCall
    \/ open_recycler
    \/ SellClick
    \/ SellCall
    \/ close_recycler
    \/ open_combat
    \/ execute_action
    \/ timer_fires
    \/ refresh_worlds
    \/ on_world_selected
    \/ on_enter_dungeon
    \/ on_open_quest_board
    \/ on_refresh_world
    \/ world_stored
    \/ world_removed

Spec == Init /\ [][Next]_vars

\* ================================================================== claims
RECURSIVE SumOver(_, _)
SumOver(S, f) ==
    IF S = {} THEN 0
    ELSE LET x == CHOOSE y \in S : TRUE IN f[x] + SumOver(S \ {x}, f)

Range(q) == { q[k] : k \in 1..Len(q) }

CallsNamed(names) == SelectSeq(lastCalls, LAMBDA c : c.fn \in names)

\* The table the specification states for the recycler.
StatedRarityXp ==
    [common |-> 5, uncommon |-> 10, rare |-> 25, epic |-> 50, legendary |-> 100]

\* C1: a completed sale of quantity n of an item passes exactly
\* n x table[rarity] XP to award_xp, once; and the total passed to award_xp
\* over all sales is the sum of these products.
C1_SaleAwardsQuantityTimesRarityXp ==
    /\ (lastOp.op = "sell_item" /\ current_player # None /\ lastOp.item \in ItemIds)
          => CallsNamed({"award_xp"}) =
                << Call("award_xp",
                        lastOp.quantity * StatedRarityXp[Items[lastOp.item].rarity]) >>
    /\ xp_awarded =
          SumOver(ItemIds, [i \in ItemIds |-> sold[i] * StatedRarityXp[Items[i].rarity]])

\* C1 witness: two sales done, one of quantity 2 of the rare item, one of the common item
C1_Witness ==
    /\ lastOp.op = "sell_item"
    /\ sold[3] = 2
    /\ sold[1] = 1
    /\ xp_awarded = 55

\* the sum of a stat's bonuses over the inventory rows whose equipped flag is set
EquippedSum(stat) ==
    LET rows == { r \in 1..Len(inventory) : inventory[r].equipped }
        bonus == [r \in rows |->
                    IF stat \in DOMAIN Items[inventory[r].item].bonuses
                    THEN Items[inventory[r].item].bonuses[stat] ELSE 0]
    IN  SumOver(rows, bonus)

\* C2: after refresh, equip_item or unequip_item with a current player, each
\* displayed total is the base value plus the bonuses of exactly the equipped rows.
C2_DisplayedStatIsBasePlusEquipped ==
    (lastOp.op \in {"refresh", "equip_item", "unequip_item"} /\ current_player # None)
       => \A stat \in StatNames :
             pv_labels[stat].total = current_player[stat] + EquippedSum(stat)

\* C2 witness: after an unequip, an hp item is still equipped and another hp
\* item is held unequipped
C2_Witness ==
    /\ lastOp.op = "unequip_item"
    /\ current_player # None
    /\ \E r \in 1..Len(inventory) :
          inventory[r].equipped /\ "hp" \in DOMAIN Items[inventory[r].item].bonuses
    /\ \E r \in 1..Len(inventory) :
          ~inventory[r].equipped /\ "hp" \in DOMAIN Items[inventory[r].item].bonuses
    /\ pv_labels["hp"].total > current_player["hp"]

CombatEnded(results) ==
    lastOp.op = "execute_action" /\ lastOp.result \in results

\* C3 as stated: the hp written back on victory or defeat is the combat hp
\* minus the hp bonus, and the other stats are written without their bonus.
C3_WriteBackIsCombatHpMinusBonus ==
    CombatEnded({"victory", "defeat"})
       => /\ cb_written["hp"] = combat_player["hp"] - equipped_bonuses["hp"]
          /\ \A stat \in StatNames \ {"hp"} : cb_written[stat] = lastOp.before[stat]

\* C3 amended: the hp written back is max(1, combat hp - hp bonus); attack,
\* defense, speed and luck stay the base values the player had before.
C3_WriteBackIsFlooredDifference ==
    CombatEnded({"victory", "defeat"})
       => /\ cb_written["hp"] = Max(1, combat_player["hp"] - equipped_bonuses["hp"])
          /\ CallsNamed({"player.hp ="}) = << Call("player.hp =", cb_written["hp"]) >>
          /\ \A stat \in StatNames \ {"hp"} :
                /\ cb_written[stat] = lastOp.before[stat]
                /\ cb_written[stat] = combat_player[stat] - equipped_bonuses[stat]

\* C3 witness: a second combat in a row is won with items equipped and less
\* combat hp left than the hp bonus
C3_Witness ==
    /\ CombatEnded({"victory"})
    /\ n_combats = 2
    /\ equipped_bonuses["hp"] > 0
    /\ combat_player["hp"] > 0
    /\ combat_player["hp"] < equipped_bonuses["hp"]
    /\ cb_written["hp"] = 1

ButtonOps ==
    {"sell_item", "equip_item", "unequip_item", "execute_action",
     "on_enter_dungeon", "on_open_quest_board", "on_refresh_world"}

StateChanging ==
    {"remove_from_inventory", "award_xp", "PlayerRepository.update",
     "ItemRepository.equip_item", "ItemRepository.unequip_item",
     "combat_turn", "handle_victory", "handle_defeat"}

Fns(calls) == [k \in 1..Len(calls) |-> calls[k].fn]

TerminalResults == {"victory", "defeat", "fled"}

\* C5: a dialog emits combat_ended at most once; it has emitted it exactly
\* when the last combat_turn reported that the combat does not continue, with
\* that turn's result (one of the three), the buttons disabled and the
\* dialog accepted on victory and rejected otherwise, and no combat_turn
\* followed; until then nothing is emitted and the buttons stay enabled.
C5_ThreeTerminalOutcomes ==
    combat_player # None =>
       /\ Len(cb_emitted) <= 1
       /\ cb_open =>
             /\ cb_emitted = << >>
             /\ \A a \in Actions : cb_buttons[a]
             /\ dialog_result = "none"
       /\ ~cb_open =>
             /\ Len(cb_emitted) = 1
             /\ cb_emitted[1].result \in TerminalResults
             /\ cb_emitted[1].turn = n_turns
             /\ \A a \in Actions : ~cb_buttons[a]
             /\ dialog_result = IF cb_emitted[1].result = "victory"
                                THEN "accepted" ELSE "rejected"
       /\ lastOp.op = "execute_action" =>
             /\ lastOp.continues <=> cb_open
             /\ ~lastOp.continues => cb_emitted[1].result = lastOp.result
             /\ Len(CallsNamed({"combat_ended.emit"})) = IF lastOp.continues THEN 0 ELSE 1

\* C5 witness: a combat lost on its second turn or later
C5_Witness ==
    /\ CombatEnded({"defeat"})
    /\ n_turns >= 2
    /\ cb_emitted = << [result |-> "defeat", turn |-> n_turns, data |-> {"xp_lost"}] >>
    /\ dialog_result = "rejected"

\* C6 as stated: with a positive combat_text_speed the narration of a turn is
\* in the combat log only once that turn's delay has elapsed.
C6_NarrationAppearsAfterDelay ==
    speed_delay > 0 => \A k \in 1..Len(cb_timers) : cb_timers[k] \notin Range(log_text)

NavigationSignals ==
    {"enter_dungeon.emit", "open_quest_board.emit", "refresh_world.emit"}

\* C7 as stated: a navigation signal is emitted only after a selection, and
\* carries the most recently selected world, which get_by_id found when it
\* was selected.
C7_NavigationCarriesFoundWorld ==
    \A k \in 1..Len(lastCalls) :
       lastCalls[k].fn \in NavigationSignals =>
          /\ map_selection # None
          /\ lastCalls[k].arg = map_selection.world
          /\ map_selection.found

\* C8 as stated: selecting a world in the list emits world_selected with its id.
C8_SelectionEmitsWorldSelected ==
    lastOp.op = "on_world_selected" =>
       Call("world_selected.emit", lastOp.world) \in Range(lastCalls)

BarOk(bar) == bar.value >= 0 /\ bar.maximum >= 1 /\ bar.value <= bar.maximum

\* C9: whenever a combat dialog shows its stats, both HP numbers and both
\* bar values are at least 0, both bar maxima at least 1, and no bar value
\* exceeds its maximum.
C9_DisplayedHpIsClamped ==
    cb_display # None =>
       /\ cb_display.enemy_hp >= 0
       /\ cb_display.player_hp >= 0
       /\ BarOk(cb_display.enemy_bar)
       /\ BarOk(cb_display.player_bar)

\* C9 witness: the enemy was driven below zero and the display shows 0 of 1,
\* after the player's hp had gone down as well
C9_Witness ==
    /\ enemy # None
    /\ enemy.hp < 0
    /\ cb_display.enemy_hp = 0
    /\ cb_display.enemy_bar = [minimum |-> 0, maximum |-> 1, value |-> 0]
    /\ cb_display.player_bar.value < combat_player.hp + 7
    /\ n_turns >= 2

\* C10: a sell_item call with no current player, or with an id get_by_id finds
\* no item for, removes nothing, awards nothing, calls nothing and shows no
\* message: the inventory, the player and the table are as before.
C10_MissingEntityEarlyReturn ==
    [][ (n_sales' = n_sales + 1
         /\ (current_player = None \/ get_by_id(lastOp'.item) = None))
        => /\ inventory' = inventory
           /\ current_player' = current_player
           /\ rec_rows' = rec_rows
           /\ xp_awarded' = xp_awarded
           /\ sold' = sold
           /\ lastCalls' = << >> ]_vars

\* C10 witness: a player with items, after one sale, called sell_item with a missing id
C10_Witness ==
    /\ lastOp.op = "sell_item"
    /\ lastOp.item \in MissingItemIds
    /\ current_player # None
    /\ inventory # << >>
    /\ xp_awarded > 0
    /\ lastCalls = << >>


EquipOps == {"equip_item", "unequip_item"}

\* C11: an equip_item or unequip_item call leaves the player (level, xp and
\* the five base stats) as it was; with a current player it changes only the
\* equipped flag of the given item's row and re-renders, without one it
\* changes nothing; and an unequip that follows the equip of the same item
\* shows again the totals displayed before the equip.
C11_EquipLeavesBaseStats ==
    [][ lastOp'.op \in EquipOps =>
          /\ current_player' = current_player
          /\ current_player = None =>
                /\ UNCHANGED <<inventory, pv_labels, pv_rows>>
                /\ lastCalls' = << >>
          /\ current_player # None =>
                /\ Len(inventory') = Len(inventory)
                /\ \A r \in 1..Len(inventory) :
                      inventory'[r] =
                         IF inventory[r].item = lastOp'.item
                         THEN [inventory[r] EXCEPT !.equipped = (lastOp'.op = "equip_item")]
                         ELSE inventory[r]
                /\ lastCalls'[Len(lastCalls')].fn = "refresh"
                /\ pv_labels' = stat_labels(current_player', inventory')
          /\ (/\ current_player # None
              /\ lastOp'.op = "unequip_item"
              /\ lastOp.op = "equip_item"
              /\ lastOp.item = lastOp'.item)
                => pv_labels' = lastOp.shown_before ]_vars

\* C11 witness: an item with an hp bonus was equipped and then unequipped
\* again, after the totals had shown its bonus
C11_Witness ==
    /\ lastOp.op = "unequip_item"
    /\ current_player # None
    /\ "hp" \in DOMAIN Items[lastOp.item].bonuses
    /\ lastOp.shown_before["hp"].total > pv_labels["hp"].total
    /\ \E r \in 1..Len(inventory) : inventory[r].item = lastOp.item /\ ~inventory[r].equipped

\* C12: when the dialog is created, each of the combat player's hp, attack,
\* defense, speed and luck is the base stat plus the sum of the equipped
\* items' bonuses for that stat, the total PlayerView.refresh shows for the
\* same player and inventory; a bonus key outside the five stats counts in
\* neither; and the base player and the inventory are left as they were.
C12_CombatStatsAgreeWithDisplay ==
    [][ lastOp'.op = "open_combat" =>
          /\ current_player' = current_player
          /\ inventory' = inventory
          /\ \A stat \in StatNames :
                /\ combat_player'[stat] = current_player[stat] + EquippedSum(stat)
                /\ combat_player'[stat] = stat_labels(current_player, inventory)[stat].total
                /\ equipped_bonuses'[stat] = stat_labels(current_player, inventory)[stat].bonus
          /\ DOMAIN equipped_bonuses' = StatNames
          /\ combat_player'.level = current_player.level
          /\ combat_player'.xp = current_player.xp ]_vars

\* C12 witness: a dialog was just created for a player who has an item
\* equipped that carries a key outside the five stats next to an hp bonus,
\* and another item with an hp bonus not equipped
C12_Witness ==
    /\ lastOp.op = "open_combat"
    /\ cb_open
    /\ combat_player.hp > current_player.hp
    /\ \E r \in 1..Len(inventory) :
          /\ inventory[r].equipped
          /\ DOMAIN Items[inventory[r].item].bonuses \ StatNames # {}
    /\ \E r \in 1..Len(inventory) :
          /\ ~inventory[r].equipped
          /\ "hp" \in DOMAIN Items[inventory[r].item].bonuses

\* the positions in lastCalls of the calls of fn
At(fn) == { i \in 1..Len(lastCalls) : lastCalls[i].fn = fn }

Before(a, b) == \A i \in At(a) : \A j \in At(b) : i < j

Once(fn) == Cardinality(At(fn)) = 1

\* C13: at the end of a combat the handler writes the hp back, calls
\* handle_victory (handle_defeat), calls PlayerRepository.update and shows the
\* result message, in that order, and only then emits combat_ended and closes
\* the dialog; after a victory the level-up message is shown, before the
\* signal, exactly when the player leveled up. The signal is thus never
\* emitted before the player it reports on has been updated and stored.
C13_PersistBeforeSignal ==
    (lastOp.op = "execute_action" /\ ~lastOp.continues
        /\ lastOp.result \in {"victory", "defeat"}) =>
       LET won == lastOp.result = "victory"
           handle == IF won THEN "handle_victory" ELSE "handle_defeat"
           message == IF won THEN "QMessageBox.information" ELSE "QMessageBox.warning"
           close == IF won THEN "accept" ELSE "reject"
       IN  /\ Once("player.hp =") /\ Once(handle) /\ Once("PlayerRepository.update")
           /\ Once("combat_ended.emit") /\ Once(close)
           /\ Before("player.hp =", handle)
           /\ Before(handle, "PlayerRepository.update")
           /\ Before("PlayerRepository.update", message)
           /\ Before(message, "combat_ended.emit")
           /\ Before("combat_ended.emit", close)
           /\ \E i \in At(close) : i = Len(lastCalls)
           /\ Cardinality(At(message)) =
                 IF won /\ current_player.level > lastOp.before.level THEN 2 ELSE 1
           /\ won => /\ At("QMessageBox.warning") = {}
                     /\ \E i \in At(message) : lastCalls[i].arg = 0
                     /\ \A i \in At(message) : \A j \in At(message) :
                           (lastCalls[i].arg = 0 /\ lastCalls[j].arg = 1) => i < j
           /\ ~won => At("QMessageBox.information") = {}
           /\ cb_emitted[Len(cb_emitted)].result = lastOp.result

\* C13 witness: a victory with a level-up, both messages shown before the signal
C13_Witness ==
    /\ lastOp.op = "execute_action"
    /\ lastOp.result = "victory"
    /\ ~lastOp.continues
    /\ Cardinality(At("QMessageBox.information")) = 2
    /\ Once("combat_ended.emit")

\* C14: a successful flee leaves the base player and the inventory as they
\* were, makes no PlayerRepository.update call and shows no message box, and
\* emits combat_ended("fled") with an empty payload before rejecting the
\* dialog; while the dialog stays open no turn changes the base player, so
\* its hp is still the hp at dialog creation whatever damage was taken.
C14_FleeLeavesPlayerUntouched ==
    [][ /\ (lastOp'.op = "execute_action" /\ lastOp'.result = "fled") =>
             /\ current_player' = current_player
             /\ inventory' = inventory
             /\ cb_written' = cb_written
             /\ \A i \in 1..Len(lastCalls') :
                   lastCalls'[i].fn \notin
                      {"player.hp =", "PlayerRepository.update", "handle_victory",
                       "handle_defeat", "QMessageBox.information", "QMessageBox.warning"}
             /\ cb_emitted' = Append(cb_emitted,
                                [result |-> "fled", turn |-> n_turns', data |-> {}])
             /\ Len(cb_emitted') = 1
             /\ lastCalls'[Len(lastCalls') - 1].fn = "combat_ended.emit"
             /\ lastCalls'[Len(lastCalls')].fn = "reject"
             /\ dialog_result' = "rejected"
             /\ ~cb_open'
        /\ (cb_open /\ cb_open') => current_player' = current_player ]_vars

\* C14 witness: the player fled in a later turn, after the combat player had
\* taken damage; the base player's hp is not the combat player's hp less the bonus
C14_Witness ==
    /\ lastOp.op = "execute_action"
    /\ lastOp.result = "fled"
    /\ n_turns >= 2
    /\ combat_player.hp < current_player.hp + equipped_bonuses["hp"]
    /\ cb_emitted = << [result |-> "fled", turn |-> n_turns, data |-> {}] >>

\* the quantity of an item held in an inventory (0 when it has no row)
Held(inv, item_id) ==
    LET rows == { r \in 1..Len(inv) : inv[r].item = item_id }
    IN  SumOver(rows, [r \in rows |-> inv[r].quantity])

\* C15: while the recycler is open its table shows the inventory as it is,
\* each quantity selector ranging over 1..the quantity held; so a sale made
\* with a row's item and a value of its selector removes at least 1 and at
\* most the quantity held, leaves no quantity negative, and awards at most
\* held quantity x the rarity's XP value.
C15_SaleWithinHeldQuantity ==
    [][ /\ (recycler_open' /\ current_player' # None) =>
             /\ Len(rec_rows') = Len(inventory')
             /\ \A r \in 1..Len(rec_rows') :
                   /\ rec_rows'[r].item = inventory'[r].item
                   /\ rec_rows'[r].spin_max = inventory'[r].quantity
                   /\ rec_rows'[r].spin_max >= 1
        /\ (/\ lastOp'.op = "sell_item"
            /\ current_player # None
            /\ \E r \in 1..Len(rec_rows) :
                  /\ rec_rows[r].item = lastOp'.item
                  /\ lastOp'.quantity \in 1..rec_rows[r].spin_max) =>
             LET item_id == lastOp'.item
                 q == lastOp'.quantity
                 held == Held(inventory, item_id)
             IN  /\ 1 <= q /\ q <= held
                 /\ Held(inventory', item_id) = held - q
                 /\ held - q >= 0
                 /\ \A r \in 1..Len(inventory') : inventory'[r].quantity >= 0
                 /\ \A i \in ItemIds \ {item_id} :
                       Held(inventory', i) = Held(inventory, i)
                 /\ xp_awarded' - xp_awarded <=
                       held * StatedRarityXp[Items[item_id].rarity]
                 /\ xp_awarded' - xp_awarded =
                       q * StatedRarityXp[Items[item_id].rarity] ]_vars

\* C15 witness: the same item was sold twice through its row, one at a time,
\* the second sale bounded by the table rebuilt after the first; none is left
C15_Witness ==
    /\ recycler_open
    /\ lastOp.op = "sell_item"
    /\ current_player # None
    /\ lastOp.item \in ItemIds
    /\ n_sales = 2
    /\ lastOp.quantity = 1
    /\ sold[lastOp.item] = 2
    /\ Held(inventory, lastOp.item) = 0
    /\ \A r \in 1..Len(rec_rows) : rec_rows[r].item # lastOp.item

\* C16: with a positive combat_text_speed every executed action schedules
\* exactly one update_display and does not update the display itself; a timer
\* that fires renders the combat player and enemy as they are then; so
\* whenever no timer is pending the displayed player and enemy HP are those
\* of the latest combat state (shown as 0 when below 0), also after further
\* actions or the end of the combat.
C16_DeferredUpdateShowsLatestState ==
    [][ speed_delay > 0 =>
          /\ lastOp'.op = "execute_action" =>
                /\ Cardinality({ i \in 1..Len(lastCalls') :
                                    lastCalls'[i].fn = "QTimer.singleShot" }) = 1
                /\ \A i \in 1..Len(lastCalls') :
                      /\ lastCalls'[i].fn # "update_display"
                      /\ lastCalls'[i].fn = "QTimer.singleShot"
                            => lastCalls'[i].arg = speed_delay
                /\ cb_timers' = Append(cb_timers, n_turns')
                /\ cb_display' = cb_display
          /\ lastOp'.op = "timer_fires" =>
                /\ Len(cb_timers') = Len(cb_timers) - 1
                /\ combat_player' = combat_player /\ enemy' = enemy
                /\ cb_display'.player_hp = Max(combat_player'.hp, 0)
                /\ cb_display'.enemy_hp = Max(enemy'.hp, 0)
          /\ (cb_timers' = << >> /\ cb_display' # None) =>
                /\ cb_display'.player_hp = Max(combat_player'.hp, 0)
                /\ cb_display'.enemy_hp = Max(enemy'.hp, 0)
                /\ cb_display'.player_bar.value = cb_display'.player_hp
                /\ cb_display'.enemy_bar.value = cb_display'.enemy_hp
                /\ combat_player'.hp >= 0 => cb_display'.player_hp = combat_player'.hp
                /\ enemy'.hp >= 0 => cb_display'.enemy_hp = enemy'.hp ]_vars

\* C16 witness: the last of several deferred updates fired after the combat
\* had ended and the dialog was closed; the display shows the final HP, which
\* is not what it showed when the dialog was created
C16_Witness ==
    /\ speed_delay > 0
    /\ lastOp.op = "timer_fires"
    /\ lastOp.turn = n_turns
    /\ n_turns >= 2
    /\ cb_timers = << >>
    /\ ~cb_open
    /\ cb_display.player_hp = combat_player.hp
    /\ combat_player.hp < current_player.hp + equipped_bonuses["hp"]
    /\ cb_display.enemy_hp = Max(enemy.hp, 0)
    /\ \E en \in StartEnemies : en.level = enemy.level /\ en.hp > enemy.hp

\* a bar is filled to its maximum
Full(bar) == bar.value = bar.maximum

\* a bar shows 0 of 1
Empty(bar) == bar.value = 0 /\ bar.maximum = 1

\* C17 as stated: after any sequence of actions each HP bar's value equals
\* its maximum whenever the hp it shows is at least 1, and the bar has value 0
\* and maximum 1 whenever that hp is 0 or below.
C17_BarScaleFollowsHp ==
    cb_display # None =>
       /\ combat_player.hp >= 1 => Full(cb_display.player_bar)
       /\ combat_player.hp <= 0 => Empty(cb_display.player_bar)
       /\ enemy.hp >= 1 => Full(cb_display.enemy_bar)
       /\ enemy.hp <= 0 => Empty(cb_display.enemy_bar)

\* C17, amended: each HP bar's value equals its maximum whenever the hp it
\* shows is at least 1; and when no deferred update_display is pending, the
\* maximum is max(hp, 1) and the value max(hp, 0), so the bar has value 0 and
\* maximum 1 whenever that hp is 0 or below. While a deferred update is
\* pending the bar keeps the value and maximum of the last update.
C17_BarScaleFollowsHpOnceUpdated ==
    cb_display # None =>
       /\ combat_player.hp >= 1 => Full(cb_display.player_bar)
       /\ enemy.hp >= 1 => Full(cb_display.enemy_bar)
       /\ cb_timers = << >> =>
             /\ cb_display.player_bar.maximum = Max(combat_player.hp, 1)
             /\ cb_display.player_bar.value = Max(combat_player.hp, 0)
             /\ cb_display.enemy_bar.maximum = Max(enemy.hp, 1)
             /\ cb_display.enemy_bar.value = Max(enemy.hp, 0)
             /\ combat_player.hp <= 0 => Empty(cb_display.player_bar)
             /\ enemy.hp <= 0 => Empty(cb_display.enemy_bar)

\* C17 witness: the last deferred update has fired; the enemy is at 0 or
\* below and its bar shows 0 of 1, while the player's bar is full at an hp
\* lower than any hp a combat starts with
C17_Witness ==
    /\ cb_display # None
    /\ speed_delay > 0
    /\ lastOp.op = "timer_fires"
    /\ cb_timers = << >>
    /\ n_turns >= 2
    /\ enemy.hp <= 0
    /\ Empty(cb_display.enemy_bar)
    /\ combat_player.hp >= 1
    /\ Full(cb_display.player_bar)
    /\ cb_display.player_bar.maximum = combat_player.hp
    /\ \A p \in CombatPlayers : combat_player.hp < p.hp

====
